---- MODULE Spec2Model ----
(***************************************************************************)
(* SonioxTranscriptionAdapter.transcribe (src/src/adapters/transcription.ts)*)
(* as a state machine: one call of transcribe, suspended at every await,   *)
(* against a remote service whose responses are chosen nondeterministically;*)
(* a second call of the same adapter may be suspended beside it.            *)
(* Strings the code inspects (the audio string) are sequences of characters;*)
(* messages built by template literals are tuples of their parts.          *)
(***************************************************************************)
EXTENDS Integers, Sequences, FiniteSets, TLC

VARIABLES
    config,           \* this.config: apiKey, timeout, pollingIntervalMs, headers
    env,              \* process.env.SONIOX_API_KEY
    options,          \* the TranscriptionOptions passed to transcribe
    pc,               \* the await at which the call is suspended
    headers,          \* const headers (transcribe)
    fileId,           \* let fileId
    transcriptionId,  \* let transcriptionId
    start,            \* const start (pollForCompletion)
    now,              \* Date.now()
    polls,            \* iterations of the for(;;) of pollForCompletion begun
    statusResponse,   \* const statusResponse (transcribe), once polling returned
    calls,            \* every fetch issued so far, in order, with the class of its response
    received,         \* the response fetch delivered last (None before the first)
    completion,       \* the completion of the try block, pending while finally runs
    outcome,          \* how the promise returned by transcribe settled
    other,            \* a second call of the same adapter, suspended: its locals
    service           \* the remote service of this run: which answers it gives

vars == <<config, env, options, pc, headers, fileId, transcriptionId, start, now,
          polls, statusResponse, calls, received, completion, outcome, other, service>>

----------------------------------------------------------------------------
(* JavaScript values.  An optional value (T | undefined) is None or Some(v); *)
(* a JSON null in a string field is the value Null.                         *)

None == <<>>
Some(v) == <<v>>
Null == "<null>"

\* v is neither undefined nor null (what ?? tests), for a string-valued optional
NotNullish(v) == v # None /\ v[1] # Null
\* truthiness of a string-valued optional
Truthy(v) == v # None /\ v[1] \notin {Null, ""}
\* v ?? d
Coalesce(v, d) == IF v = None THEN d ELSE v[1]

\* obj.k for an object held as a function from its keys
Get(obj, k) == IF k \in DOMAIN obj THEN Some(obj[k]) ELSE None
EmptyObject == [k \in {} |-> None]
Merge(f, g) == [k \in DOMAIN f \cup DOMAIN g |-> IF k \in DOMAIN g THEN g[k] ELSE f[k]]

StartsWith(s, p) == Len(s) >= Len(p) /\ SubSeq(s, 1, Len(p)) = p
Includes(seq, v) == \E i \in 1..Len(seq) : seq[i] = v

\* JSON.stringify of an object literal whose members are optionals: a member
\* whose value is undefined is left out.
JSONstringify(obj) == [k \in {x \in DOMAIN obj : obj[x] # None} |-> obj[k][1]]

----------------------------------------------------------------------------
(* Bounds of the model *)

MaxPolls == 2           \* status checks one call may issue before the model stops it
MaxTokens == 3          \* tokens of a transcript (the lists enumerated in full)

(* Program constants *)

DefaultPollingIntervalMs == 1000
DefaultTimeoutMs == 5 * 60 * 1000
DocumentedTimeoutMs == 180000

\* Time a request may take (ms): immediate, or long enough that two of them
\* exceed every timeout of the model.
Latency == {0, 200000}

----------------------------------------------------------------------------
(* Inputs *)

HttpsPrefix == <<"h", "t", "t", "p", "s", ":", "/", "/">>
HttpPrefix == <<"h", "t", "t", "p", ":", "/", "/">>
DataPrefix == <<"d", "a", "t", "a", ":">>
Base64Alphabet == {"Q", "U", "J", "D", "a", "b", "=", "+", "/"}

\* An audio input: its JavaScript type and, for a URL or a string, its characters
\* (for a Blob, the characters of its media type).
AudioInputs ==
    { [type |-> "URL", value |-> HttpsPrefix \o <<"a">>],
      [type |-> "string", value |-> HttpsPrefix \o <<"a">>],
      [type |-> "string", value |-> HttpPrefix \o <<"a">>],
      [type |-> "string", value |-> DataPrefix \o <<"a", "/", "b", ",", "Q", "U">>],
      [type |-> "string", value |-> <<"Q", "U", "J", "D">>],
      [type |-> "string", value |-> <<"f", "t", "p", ":", "/", "/", "a">>],
      [type |-> "ArrayBuffer", value |-> <<>>],
      [type |-> "number", value |-> <<>>] }

\* An adapter as constructed, with the environment it runs in: the key given
\* explicitly (createSonioxTranscription) or left to the environment, the
\* timeout and interval left to their defaults or configured, and extra
\* headers: none, headers of the caller's own (one of them a content-type), or
\* an authorization header of the caller's own.
Setups ==
    { [config |-> [apiKey |-> Some("test-key"), timeout |-> None,
                   pollingIntervalMs |-> None, headers |-> EmptyObject],
       env |-> None],
      [config |-> [apiKey |-> Some("test-key"), timeout |-> Some(150000),
                   pollingIntervalMs |-> Some(1),
                   headers |-> [x_trace |-> <<"abc">>, content_type |-> <<"text/plain">>]],
       env |-> Some("env-key")],
      [config |-> [apiKey |-> None, timeout |-> None,
                   pollingIntervalMs |-> Some(1),
                   headers |-> [authorization |-> <<"Basic ", "abc">>]],
       env |-> Some("env-key")],
      [config |-> [apiKey |-> None, timeout |-> Some(150000),
                   pollingIntervalMs |-> None, headers |-> EmptyObject],
       env |-> None] }

\* modelOptions; an absent modelOptions behaves as {} everywhere it is read
ModelOptionsInputs ==
    { EmptyObject,
      [enableLanguageIdentification |-> TRUE, languageHints |-> <<"en", "es">>] }

Requests ==
    [ model : {"stt-async-v3"},
      audio : AudioInputs,
      language : {Some("en")},
      modelOptions : ModelOptionsInputs ]

\* modelOptions exercising the Option Mapper: hints absent, empty, with a
\* repeated entry; each kind of context; each variant of translation, one of
\* them an object that also holds a field of the other variant
ModelOptionsVariants ==
    { EmptyObject,
      [languageHints |-> <<>>],
      [languageHints |-> <<"en", "es">>, languageHintsStrict |-> TRUE],
      [languageHints |-> <<"es", "en", "es">>,
       context |-> [kind |-> "string", text |-> ""]],
      [context |-> [kind |-> "string", text |-> "a meeting"],
       translation |-> [type |-> "one_way", targetLanguage |-> "es"]],
      [languageHints |-> <<"fr">>,
       context |-> [kind |-> "object",
                    fields |-> [text |-> "a meeting",
                                translationTerms |-> <<[source |-> "a", target |-> "b"]>>]],
       translation |-> [type |-> "two_way", languageA |-> "en", languageB |-> "es"]],
      [translation |-> [type |-> "one_way", targetLanguage |-> "es", languageA |-> "en"]],
      [languageHints |-> <<"en">>, enableSpeakerDiarization |-> TRUE,
       clientReferenceId |-> "ref-1", webhookUrl |-> "https://hook",
       webhookAuthHeaderName |-> "x-auth", webhookAuthHeaderValue |-> "secret"] }

\* requests exercising the Option Mapper: URL audio and uploaded audio, the
\* request-level language absent, among the hints, or not among them
MapperRequests ==
    [ model : {"stt-async-v3"},
      audio : { [type |-> "string", value |-> HttpsPrefix \o <<"a">>],
                [type |-> "ArrayBuffer", value |-> <<>>] },
      language : {None, Some("en"), Some("fr")},
      modelOptions : ModelOptionsVariants ]

----------------------------------------------------------------------------
(* Completions and errors *)

Return(v) == [type |-> "return", value |-> v]
Throw(e) == [type |-> "throw", value |-> e]

StatusString(n) == CASE n = 200 -> "200" [] n = 204 -> "204" [] n = 401 -> "401"
                     [] n = 500 -> "500" [] OTHER -> "?"

\* new Error(message)
PlainError(message) == [name |-> "Error", message |-> message]
\* the TypeError with which fetch rejects when the request cannot be made
FetchFailed == [name |-> "TypeError", message |-> <<"fetch failed">>]
\* the DOMException atob throws on a character outside the base64 alphabet
InvalidCharacterError == [name |-> "InvalidCharacterError", message |-> <<"invalid character">>]

SonioxTranscriptionError(message) ==
    [name |-> "SonioxTranscriptionError", message |-> message]

SonioxTranscriptionTimeoutError ==
    [name |-> "SonioxTranscriptionTimeoutError",
     message |-> <<"Transcription job polling timed out">>]

SonioxApiError(status, statusText, body) ==
    [name |-> "SonioxApiError",
     message |-> <<"Soniox API error (", StatusString(status), " ", statusText, ")">>
                 \o (IF body # "" THEN <<": ", body>> ELSE <<>>),
     status |-> status, statusText |-> statusText, body |-> body]

----------------------------------------------------------------------------
(* Credentials and headers *)

getSonioxApiKeyFromEnv(envKey) ==
    IF ~Truthy(envKey)
    THEN Throw(PlainError(<<"SONIOX_API_KEY is required. Please set it in your environment variables or use the factory function with an explicit API key.">>))
    ELSE Return(envKey[1])

\* buildHeaders asking the environment first
buildHeadersEnvFirst(cfg, envKey) ==
    LET apiKey == IF Truthy(envKey) THEN Return(envKey[1])
                  ELSE IF NotNullish(cfg.apiKey) THEN Return(cfg.apiKey[1])
                  ELSE getSonioxApiKeyFromEnv(envKey)
    IN IF apiKey.type = "throw" THEN apiKey
       ELSE Return(Merge([authorization |-> <<"Bearer ", apiKey.value>>], cfg.headers))

\* buildHeaders without the check of the key: a missing key is sent as it is
buildHeadersUnchecked(cfg, envKey) ==
    Return(Merge([authorization |-> <<"Bearer ", Coalesce(cfg.apiKey, Coalesce(envKey, "undefined"))>>],
                 cfg.headers))

buildHeaders(cfg, envKey) ==
    LET apiKey == IF NotNullish(cfg.apiKey) THEN Return(cfg.apiKey[1])
                  ELSE getSonioxApiKeyFromEnv(envKey)
    IN IF apiKey.type = "throw" THEN apiKey
       ELSE Return(Merge([authorization |-> <<"Bearer ", apiKey.value>>], cfg.headers))

----------------------------------------------------------------------------
(* Audio Resolver *)

\* extractAudioUrl taking every string for a URL
extractAudioUrlAnyString(audio) ==
    IF audio.type \in {"URL", "string"} THEN Some(audio.value) ELSE None

extractAudioUrl(audio) ==
    IF audio.type = "URL" THEN Some(audio.value)
    ELSE IF audio.type = "string"
            /\ (StartsWith(audio.value, HttpsPrefix) \/ StartsWith(audio.value, HttpPrefix))
         THEN Some(audio.value)
         ELSE None

\* s.split(ch): the pieces of s between the occurrences of ch
RECURSIVE Split(_, _)
Split(s, ch) ==
    IF \A i \in 1..Len(s) : s[i] # ch THEN <<s>>
    ELSE LET i == CHOOSE j \in 1..Len(s) : s[j] = ch /\ \A k \in 1..(j - 1) : s[k] # ch
         IN <<SubSeq(s, 1, i - 1)>> \o Split(SubSeq(s, i + 1, Len(s)), ch)

\* element i (0-based) of an array, undefined past its end
At(arr, i) == IF i + 1 <= Len(arr) THEN Some(arr[i + 1]) ELSE None

\* header.match(/data:([^;]+)/)?.[1] for a header that begins with data:
MimeMatch(header) ==
    LET rest == SubSeq(header, Len(DataPrefix) + 1, Len(header))
        mime == Split(rest, ";")[1]
    IN IF mime = <<>> THEN None ELSE Some(mime)

\* x || d for strings
OrDefault(v, d) == IF v = None \/ v[1] = <<>> THEN d ELSE v[1]

AudioMpeg == <<"a", "u", "d", "i", "o", "/", "m", "p", "e", "g">>
Mp3 == <<"m", "p", "3">>

\* atob throws on input that is not base64; the decoded bytes are not modelled
atobThrows(s) == \E i \in 1..Len(s) : s[i] \notin Base64Alphabet

NewFile(extension, mimeType) == [name |-> <<"audio.">> \o extension, type |-> mimeType]

prepareAudioFile(audio) ==
    IF audio.type = "File" THEN Return([name |-> <<"given">>, type |-> audio.value])
    ELSE IF audio.type = "Blob"
    THEN LET mimeType == OrDefault(Some(audio.value), AudioMpeg)
             extension == OrDefault(At(Split(mimeType, "/"), 1), Mp3)
         IN Return(NewFile(extension, mimeType))
    ELSE IF audio.type \in {"ArrayBuffer", "Uint8Array"}
    THEN Return(NewFile(Mp3, AudioMpeg))
    ELSE IF audio.type = "string"
    THEN IF StartsWith(audio.value, DataPrefix)
         THEN LET parts == Split(audio.value, ",")
                  mimeType == OrDefault(MimeMatch(parts[1]), AudioMpeg)
                  extension == OrDefault(At(Split(mimeType, "/"), 1), Mp3)
              IN IF atobThrows(OrDefault(At(parts, 1), <<>>))
                 THEN Throw(InvalidCharacterError)
                 ELSE Return(NewFile(extension, mimeType))
         ELSE IF atobThrows(audio.value) THEN Throw(InvalidCharacterError)
              ELSE Return(NewFile(Mp3, AudioMpeg))
    ELSE Throw(PlainError(<<"Invalid audio input type">>))

----------------------------------------------------------------------------
(* Option Mapper *)

\* mapProviderOptions, the request-level language always appended
mapProviderOptionsAlwaysAppending(modelOptions, language) ==
    LET given == Coalesce(Get(modelOptions, "languageHints"), <<>>)
        languageHints == IF Truthy(language) THEN Append(given, language[1]) ELSE given
        rest == [k \in DOMAIN modelOptions \ {"languageHints"} |-> modelOptions[k]]
    IN IF Len(languageHints) > 0
       THEN Merge(rest, [languageHints |-> languageHints])
       ELSE rest

\* the language pushed onto the caller's own array instead of a copy of it
OptionsAfterMappingPushed(modelOptions, language) ==
    IF "languageHints" \in DOMAIN modelOptions
       /\ Truthy(language) /\ ~Includes(modelOptions.languageHints, language[1])
    THEN [modelOptions EXCEPT !.languageHints = Append(@, language[1])]
    ELSE modelOptions

\* the hints taken out of the caller's object
OptionsAfterMappingHintsTaken(modelOptions, language) ==
    [k \in DOMAIN modelOptions \ {"languageHints"} |-> modelOptions[k]]

\* the caller's modelOptions object once mapProviderOptions has run: the hints
\* are pushed onto a copy ([...options.languageHints]) and the object is
\* spread into a new one, so nothing of it is written
OptionsAfterMapping(modelOptions, language) == modelOptions

mapProviderOptions(modelOptions, language) ==
    LET given == Coalesce(Get(modelOptions, "languageHints"), <<>>)
        languageHints == IF Truthy(language) /\ ~Includes(given, language[1])
                         THEN Append(given, language[1]) ELSE given
        rest == [k \in DOMAIN modelOptions \ {"languageHints"} |-> modelOptions[k]]
    IN IF Len(languageHints) > 0
       THEN Merge(rest, [languageHints |-> languageHints])
       ELSE rest

\* context: None, a string [kind |-> "string", text], or an object
\* [kind |-> "object", fields], fields holding some of general, text, terms,
\* translationTerms
mapContext(context) ==
    IF context = None THEN None
    ELSE IF context[1].kind = "string"
    THEN (IF context[1].text = "" THEN None ELSE context)
    ELSE LET c == context[1].fields
         IN Some([kind |-> "object",
                  fields |-> JSONstringify(
                      [general |-> Get(c, "general"),
                       text |-> Get(c, "text"),
                       terms |-> Get(c, "terms"),
                       translation_terms |-> Get(c, "translationTerms")])])

\* mapTranslation passing on whatever language fields the object holds
mapTranslationAnyField(translation) ==
    IF translation = None THEN None
    ELSE Some(JSONstringify([type |-> Get(translation[1], "type"),
                             target_language |-> Get(translation[1], "targetLanguage"),
                             language_a |-> Get(translation[1], "languageA"),
                             language_b |-> Get(translation[1], "languageB")]))

mapTranslation(translation) ==
    IF translation = None THEN None
    ELSE IF translation[1].type = "one_way"
    THEN Some(JSONstringify([type |-> Some("one_way"),
                             target_language |-> Get(translation[1], "targetLanguage")]))
    ELSE Some(JSONstringify([type |-> Some("two_way"),
                             language_a |-> Get(translation[1], "languageA"),
                             language_b |-> Get(translation[1], "languageB")]))

\* the spread that puts the audio reference into the job-creation body
AudioReference(audioUrl, fId) ==
    IF audioUrl # None THEN [audio_url |-> audioUrl] ELSE [file_id |-> fId]

\* the body of POST /v1/transcriptions
CreateBody(model, audioUrl, fId, mapped) ==
    JSONstringify(
        Merge(Merge([model |-> Some(model)], AudioReference(audioUrl, fId)),
            [language_hints |-> Get(mapped, "languageHints"),
             language_hints_strict |-> Get(mapped, "languageHintsStrict"),
             enable_language_identification |-> Get(mapped, "enableLanguageIdentification"),
             enable_speaker_diarization |-> Get(mapped, "enableSpeakerDiarization"),
             context |-> mapContext(Get(mapped, "context")),
             client_reference_id |-> Get(mapped, "clientReferenceId"),
             webhook_url |-> Get(mapped, "webhookUrl"),
             webhook_auth_header_name |-> Get(mapped, "webhookAuthHeaderName"),
             webhook_auth_header_value |-> Get(mapped, "webhookAuthHeaderValue"),
             translation |-> mapTranslation(Get(mapped, "translation"))]))

----------------------------------------------------------------------------
(* Result Normalizer *)

\* a token: text, and the optionals start_ms, end_ms, confidence, speaker,
\* language, translation_status (a numeric null is held as None)
Seconds(ms) == [ms |-> ms, per |-> 1000]              \* ms / 1000
SpeakerString(sp) == IF sp.kind = "string" THEN sp.value
                     ELSE CASE sp.value = 1 -> "1" [] sp.value = 2 -> "2" [] OTHER -> "0"

\* the filter of buildSegments testing the timestamps for truthiness
IsSegmentTokenTruthy(token) ==
    /\ token.start_ms \notin {None, Some(0)}
    /\ token.end_ms \notin {None, Some(0)}
    /\ \/ token.translation_status = None
       \/ token.translation_status = Some(Null)
       \/ token.translation_status = Some("original")
       \/ token.translation_status = Some("none")

IsSegmentToken(token) ==
    /\ token.start_ms # None
    /\ token.end_ms # None
    /\ \/ token.translation_status = None
       \/ token.translation_status = Some(Null)
       \/ token.translation_status = Some("original")
       \/ token.translation_status = Some("none")

\* buildSegments numbering each segment by its token's place in the token list
buildSegmentsSourceIndex(tokens) ==
    LET kept == SelectSeq(tokens, IsSegmentToken)
        place(k) == CHOOSE i \in 1..Len(tokens) :
                        /\ IsSegmentToken(tokens[i])
                        /\ Cardinality({j \in 1..i : IsSegmentToken(tokens[j])}) = k
    IN [i \in 1..Len(kept) |->
          [id |-> place(i) - 1,
           start |-> Seconds(kept[i].start_ms[1]),
           end |-> Seconds(kept[i].end_ms[1]),
           text |-> kept[i].text,
           confidence |-> kept[i].confidence,
           speaker |-> IF kept[i].speaker = None THEN None
                       ELSE Some(SpeakerString(kept[i].speaker[1]))]]

buildSegments(tokens) ==
    LET kept == SelectSeq(tokens, IsSegmentToken)
    IN [i \in 1..Len(kept) |->
          [id |-> i - 1,
           start |-> Seconds(kept[i].start_ms[1]),
           end |-> Seconds(kept[i].end_ms[1]),
           text |-> kept[i].text,
           confidence |-> kept[i].confidence,
           speaker |-> IF kept[i].speaker = None THEN None
                       ELSE Some(SpeakerString(kept[i].speaker[1]))]]

\* the keys of the Map counts, in insertion order
RECURSIVE FirstSeen(_)
FirstSeen(tokens) ==
    IF tokens = <<>> THEN <<>>
    ELSE LET before == FirstSeen(SubSeq(tokens, 1, Len(tokens) - 1))
             lang == tokens[Len(tokens)].language
         IN IF Truthy(lang) /\ ~Includes(before, lang[1])
            THEN Append(before, lang[1]) ELSE before

Count(tokens, lang) == Cardinality({i \in 1..Len(tokens) : tokens[i].language = Some(lang)})

\* the loop over counts replacing the best on an equal count
RECURSIVE BestLastWins(_, _, _)
BestLastWins(tokens, keys, n) ==
    IF n = 0 THEN [language |-> None, count |-> 0]
    ELSE LET prev == BestLastWins(tokens, keys, n - 1)
             c == Count(tokens, keys[n])
         IN IF c >= prev.count THEN [language |-> Some(keys[n]), count |-> c] ELSE prev

\* the loop over counts: best after the first n keys
RECURSIVE Best(_, _, _)
Best(tokens, keys, n) ==
    IF n = 0 THEN [language |-> None, count |-> 0]
    ELSE LET prev == Best(tokens, keys, n - 1)
             c == Count(tokens, keys[n])
         IN IF c > prev.count THEN [language |-> Some(keys[n]), count |-> c] ELSE prev

getLanguageFromTokens(tokens) ==
    IF Len(tokens) = 0 THEN None
    ELSE LET keys == FirstSeen(tokens) IN Best(tokens, keys, Len(keys)).language

generateId(prefix, time, random) == <<prefix, time, random>>

\* the result with the segments as they come, an empty list included
BuildResultEmptySegments(model, language, status, transcript, time, random) ==
    LET tokens == Coalesce(Get(transcript, "tokens"), <<>>)
        segments == buildSegments(tokens)
        detectedLanguage == getLanguageFromTokens(tokens)
        text == Get(transcript, "text")
    IN [id |-> generateId("soniox", time, random),
        model |-> model,
        text |-> IF NotNullish(text) THEN text[1] ELSE "",
        language |-> IF detectedLanguage # None THEN detectedLanguage ELSE language,
        duration |-> IF Get(status, "audio_duration_ms") # None
                     THEN Some(Seconds(status.audio_duration_ms)) ELSE None,
        segments |-> Some(segments),
        providerMetadata |-> IF Len(tokens) > 0 THEN Some([soniox |-> [tokens |-> tokens]])
                             ELSE None]

\* what transcribe returns from the transcript and the final status response
BuildResult(model, language, status, transcript, time, random) ==
    LET tokens == Coalesce(Get(transcript, "tokens"), <<>>)
        segments == buildSegments(tokens)
        detectedLanguage == getLanguageFromTokens(tokens)
        text == Get(transcript, "text")
    IN [id |-> generateId("soniox", time, random),
        model |-> model,
        text |-> IF NotNullish(text) THEN text[1] ELSE "",
        language |-> IF detectedLanguage # None THEN detectedLanguage ELSE language,
        duration |-> IF Get(status, "audio_duration_ms") # None
                     THEN Some(Seconds(status.audio_duration_ms)) ELSE None,
        segments |-> IF Len(segments) > 0 THEN Some(segments) ELSE None,
        providerMetadata |-> IF Len(tokens) > 0 THEN Some([soniox |-> [tokens |-> tokens]])
                             ELSE None]

----------------------------------------------------------------------------
(* HTTP *)

\* A response of fetch: net is FALSE when fetch rejects; a body is its text,
\* whether reading it succeeds, and what JSON.parse makes of the text.
EmptyBody == [readable |-> TRUE, text |-> "", parsed |-> None]
UnreadableBody == [readable |-> FALSE, text |-> "", parsed |-> None]
TextBody(t) == [readable |-> TRUE, text |-> t, parsed |-> None]
JsonBody(t, v) == [readable |-> TRUE, text |-> t, parsed |-> Some(v)]
Http(status, statusText, body) ==
    [net |-> TRUE, status |-> status, statusText |-> statusText, body |-> body]
FetchRejects == [net |-> FALSE, status |-> 0, statusText |-> "", body |-> EmptyBody]

ResponseOk(r) == r.status \in 200..299

safeReadText(r) == IF r.body.readable THEN r.body.text ELSE ""

\* requestJson without the response.ok check
requestJsonIgnoringStatus(r) ==
    IF ~r.net THEN Throw(FetchFailed)
    ELSE LET text == safeReadText(r)
         IN IF text = "" THEN Return(EmptyObject)
            ELSE IF r.body.parsed = None
            THEN Throw(SonioxTranscriptionError(<<"Failed to parse Soniox response JSON">>))
            ELSE Return(r.body.parsed[1])

\* requestJson passing over a failure: a non-success status or an unparsable
\* body yields the empty object
requestJsonSwallowingErrors(r) ==
    IF ~r.net THEN Throw(FetchFailed)
    ELSE IF ~ResponseOk(r) THEN Return(EmptyObject)
    ELSE LET text == safeReadText(r)
         IN IF text = "" \/ r.body.parsed = None THEN Return(EmptyObject)
            ELSE Return(r.body.parsed[1])

\* requestJson taking an empty body for unparsable JSON
requestJsonEmptyIsParseError(r) ==
    IF ~r.net THEN Throw(FetchFailed)
    ELSE IF ~ResponseOk(r)
    THEN Throw(SonioxApiError(r.status, r.statusText, safeReadText(r)))
    ELSE IF r.body.parsed = None
         THEN Throw(SonioxTranscriptionError(<<"Failed to parse Soniox response JSON">>))
         ELSE Return(r.body.parsed[1])

requestJson(r) ==
    IF ~r.net THEN Throw(FetchFailed)
    ELSE IF ~ResponseOk(r)
    THEN Throw(SonioxApiError(r.status, r.statusText, safeReadText(r)))
    ELSE LET text == safeReadText(r)
         IN IF text = "" THEN Return(EmptyObject)
            ELSE IF r.body.parsed = None
            THEN Throw(SonioxTranscriptionError(<<"Failed to parse Soniox response JSON">>))
            ELSE Return(r.body.parsed[1])

\* tryDeleteResource without its catch: a rejected fetch propagates
tryDeleteResourceNoCatch(path, r) ==
    IF path = None THEN [fetched |-> FALSE, completion |-> Return("void")]
    ELSE [fetched |-> TRUE,
          completion |-> IF r.net THEN Return("void") ELSE Throw(FetchFailed)]

\* tryDeleteResource: whether it fetches at all, and how it completes once its
\* fetch has settled with r (a rejected fetch is caught)
tryDeleteResource(path, r) ==
    IF path = None THEN [fetched |-> FALSE, completion |-> Return("void")]
    ELSE [fetched |-> TRUE,
          completion |-> IF r.net THEN Return("void") ELSE Return("void")]

----------------------------------------------------------------------------
(* The remote service: what each endpoint may answer *)

FailedResponses ==
    { FetchRejects,
      Http(401, "Unauthorized", TextBody("denied")),
      Http(500, "Internal Server Error", UnreadableBody) }

BodilessResponses ==
    { Http(200, "OK", EmptyBody),
      Http(200, "OK", UnreadableBody),
      Http(200, "OK", TextBody("<html>")) }

UploadResponses ==
    FailedResponses \cup BodilessResponses
    \cup { Http(200, "OK", JsonBody("{id:file-1}", [id |-> "file-1"])) }

CreateResponses ==
    FailedResponses \cup BodilessResponses
    \cup { Http(200, "OK", JsonBody("{id:tr-1}", [id |-> "tr-1"])) }

StatusBodies ==
    { [id |-> "tr-1"],
      [id |-> "tr-1", status |-> "queued"],
      [id |-> "tr-1", status |-> "processing"],
      [id |-> "tr-1", status |-> "paused"],
      [id |-> "tr-1", status |-> "completed"],
      [id |-> "tr-1", status |-> "completed", audio_duration_ms |-> 1234],
      [id |-> "tr-1", status |-> "error"],
      [id |-> "tr-1", status |-> "error", error_message |-> Null],
      [id |-> "tr-1", status |-> "error", error_message |-> "decode failure"] }

StatusResponses ==
    FailedResponses \cup BodilessResponses
    \cup { Http(200, "OK", JsonBody("{status}", b)) : b \in StatusBodies }

Token(text, startMs, endMs, confidence, speaker, language, translationStatus) ==
    [text |-> text, start_ms |-> startMs, end_ms |-> endMs, confidence |-> confidence,
     speaker |-> speaker, language |-> language, translation_status |-> translationStatus]

Hello == Token("hello", Some(0), Some(500), Some(90), Some([kind |-> "number", value |-> 1]),
               Some("en"), None)
World == Token("world", Some(500), Some(1000), Some(80), Some([kind |-> "number", value |-> 1]),
               Some("en"), Some("original"))
Hola == Token("hola", Some(0), Some(500), None, Some([kind |-> "string", value |-> "A"]),
              Some("es"), Some("translation"))
Untimed == Token("um", None, None, None, None, Some("es"), None)

TranscriptBodies ==
    { [id |-> "tr-1"],
      [id |-> "tr-1", text |-> "hello world", tokens |-> <<Hello, World>>],
      [id |-> "tr-1", text |-> "hola", tokens |-> <<Hola, Untimed>>],
      [id |-> "tr-1", text |-> Null, tokens |-> <<Untimed, Hello, Hola>>] }

TranscriptResponses ==
    FailedResponses \cup BodilessResponses
    \cup { Http(200, "OK", JsonBody("{transcript}", b)) : b \in TranscriptBodies }

DeleteResponses ==
    { FetchRejects,
      Http(204, "No Content", EmptyBody),
      Http(500, "Internal Server Error", TextBody("boom")) }

RandomSuffixes == {"k3x9"}

\* a service that may answer each request with any response of its endpoint,
\* at once or late
AnyService ==
    [upload |-> UploadResponses, create |-> CreateResponses, status |-> StatusResponses,
     transcript |-> TranscriptResponses, delete |-> DeleteResponses, latency |-> Latency]

\* a service that answers at once and either refuses a request or answers it
\* in full, giving a job one of two ids; a DELETE may also fail to be sent
TwoCallService ==
    [upload |-> { Http(401, "Unauthorized", TextBody("denied")),
                  Http(200, "OK", JsonBody("{id:file-1}", [id |-> "file-1"])) },
     create |-> { Http(401, "Unauthorized", TextBody("denied")),
                  Http(200, "OK", JsonBody("{id:tr-1}", [id |-> "tr-1"])),
                  Http(200, "OK", JsonBody("{id:tr-2}", [id |-> "tr-2"])) },
     status |-> { Http(200, "OK", JsonBody("{status}", [id |-> "tr-1", status |-> "processing"])),
                  Http(200, "OK", JsonBody("{status}", [id |-> "tr-1", status |-> "completed",
                                                         audio_duration_ms |-> 1234])),
                  Http(200, "OK", JsonBody("{status}", [id |-> "tr-1", status |-> "error",
                                                         error_message |-> "decode failure"])) },
     transcript |-> { Http(401, "Unauthorized", TextBody("denied")),
                      Http(200, "OK", JsonBody("{transcript}",
                          [id |-> "tr-1", text |-> "hello world", tokens |-> <<Hello, World>>])) },
     delete |-> { FetchRejects, Http(204, "No Content", EmptyBody) },
     latency |-> {0}]

\* tokens as the service may send them: timed from 0, timed and marked
\* 'original', a timed translation, an untimed one, one with a start and no
\* end marked 'none', one with a null status and a null language, and a
\* timed one marked 'none'
HalfTimed == Token("er", Some(1000), None, None, None, None, Some("none"))
Late == Token("late", Some(2000), Some(2500), None, None, Some(Null), Some(Null))
Si == Token("si", Some(100), Some(200), Some(70), None, Some("es"), Some("none"))

TokenAlphabet == {Hello, World, Hola, Untimed, HalfTimed, Late, Si}

\* the token lists of the transcripts: every list of up to MaxTokens tokens,
\* and the lists with two tokens of each of two languages
TokenLists ==
    UNION { [1..n -> TokenAlphabet] : n \in 0..MaxTokens }
    \cup { <<Hello, Hola, Untimed, World>>, <<Untimed, Hello, World, Si>> }

\* a service that answers every request in full and at once, with a
\* transcript of any of the token lists, of no token list, or of no body
TranscriptService ==
    [upload |-> { Http(200, "OK", JsonBody("{id:file-1}", [id |-> "file-1"])) },
     create |-> { Http(200, "OK", JsonBody("{id:tr-1}", [id |-> "tr-1"])) },
     status |-> { Http(200, "OK", JsonBody("{status}", [id |-> "tr-1", status |-> "processing"])),
                  Http(200, "OK", JsonBody("{status}", [id |-> "tr-1", status |-> "completed"])) },
     transcript |-> { Http(200, "OK", EmptyBody),
                      Http(200, "OK", JsonBody("{transcript}", [id |-> "tr-1"])) }
                    \cup { Http(200, "OK", JsonBody("{transcript}",
                               [id |-> "tr-1", text |-> "text", tokens |-> l])) :
                           l \in TokenLists },
     delete |-> { Http(204, "No Content", EmptyBody) },
     latency |-> {0}]

Service == CASE service = "any" -> AnyService
             [] service = "two calls" -> TwoCallService
             [] service = "transcripts" -> TranscriptService

----------------------------------------------------------------------------
(* The calls of fetch *)

ResultClass(r) == IF ~r.net THEN "rejected" ELSE IF ResponseOk(r) THEN "ok" ELSE "http_error"

Call(method, path, hdrs, body) ==
    [method |-> method, path |-> path, headers |-> hdrs, body |-> body, result |-> "pending"]

\* the response to the call in flight (the last one) has arrived
Answered(cs, r) == [cs EXCEPT ![Len(cs)].result = ResultClass(r)]

\* String(v) inside a template literal
TemplateString(v) == IF v = None THEN "undefined" ELSE v[1]

FilesPath == <<"/v1/files">>
TranscriptionsPath == <<"/v1/transcriptions">>
JobPath(tId) == <<"/v1/transcriptions/", TemplateString(tId)>>
TranscriptPath(tId) == <<"/v1/transcriptions/", TemplateString(tId), "/transcript">>
FilePath(fId) == <<"/v1/files/", TemplateString(fId)>>

WithContentType(hdrs) == Merge(hdrs, [content_type |-> <<"application/json">>])

IsDelete(c) == c.method = "DELETE"
IsUpload(c) == c.method = "POST" /\ c.path = FilesPath
IsCreate(c) == c.method = "POST" /\ c.path = TranscriptionsPath
IsStatus(c) == c.method = "GET" /\ Len(c.path) = 2
IsTranscript(c) == c.method = "GET" /\ Len(c.path) = 3
IsJobDelete(c) == IsDelete(c) /\ c.path[1] = JobPath(None)[1]
IsFileDelete(c) == IsDelete(c) /\ c.path[1] = FilePath(None)[1]

Indices(cs, P(_)) == {i \in 1..Len(cs) : P(cs[i])}

----------------------------------------------------------------------------
(* transcribe *)

Pending == [state |-> "pending"]
NoCompletion == [type |-> "none"]

\* no second call
NoCall == [pc |-> "none"]

\* the arguments and locals of the running call
Locals ==
    [options |-> options, pc |-> pc, headers |-> headers, fileId |-> fileId,
     transcriptionId |-> transcriptionId, start |-> start, polls |-> polls,
     statusResponse |-> statusResponse, calls |-> calls, received |-> received,
     completion |-> completion, outcome |-> outcome]

\* a failure turned into a result without content instead of a rejection
SettleSwallowing(comp) ==
    IF comp.type = "return" THEN [state |-> "fulfilled", value |-> comp.value]
    ELSE [state |-> "fulfilled", value |-> [text |-> ""]]

\* how the promise of the async function settles on a completion
Settle(comp) ==
    IF comp.type = "return" THEN [state |-> "fulfilled", value |-> comp.value]
    ELSE [state |-> "rejected", reason |-> comp.value]

\* the timeout taken from the class field alone, config.timeout ignored
timeoutMsDefaultOnly == DefaultTimeoutMs

timeoutMs == IF config.timeout # None THEN config.timeout[1] ELSE DefaultTimeoutMs
interval == IF config.pollingIntervalMs # None THEN config.pollingIntervalMs[1]
            ELSE DefaultPollingIntervalMs

\* the file path built whether or not an id was recorded
FileDeletePathUnguarded(fId) == Some(FilePath(fId))

JobDeletePath(tId) == IF Truthy(tId) THEN Some(JobPath(tId)) ELSE None
FileDeletePath(fId) == IF Truthy(fId) THEN Some(FilePath(fId)) ELSE None

\* the second delete aimed at the transcription path again
FinallyFileWrongPath(comp, fId, cs) ==
    IF tryDeleteResource(FileDeletePath(fId), FetchRejects).fetched
    THEN /\ pc' = "deleting_file"
         /\ calls' = Append(cs, Call("DELETE", JobPath(fId), headers', None))
         /\ outcome' = outcome
    ELSE /\ pc' = "done"
         /\ calls' = cs
         /\ outcome' = Settle(comp)

\* the second tryDeleteResource of the finally block, then the settling
\* (whether tryDeleteResource fetches does not depend on the response)
FinallyFile(comp, fId, cs) ==
    IF tryDeleteResource(FileDeletePath(fId), FetchRejects).fetched
    THEN /\ pc' = "deleting_file"
         /\ calls' = Append(cs, Call("DELETE", FilePath(fId), headers', None))
         /\ outcome' = outcome
    ELSE /\ pc' = "done"
         /\ calls' = cs
         /\ outcome' = Settle(comp)

\* the deletes at the end of the try block instead of in a finally block
FinallyOnlyAfterSuccess(comp, tId, fId, cs) ==
    /\ completion' = comp
    /\ IF comp.type = "throw"
       THEN /\ pc' = "done"
            /\ calls' = cs
            /\ outcome' = Settle(comp)
       ELSE IF tryDeleteResource(JobDeletePath(tId), FetchRejects).fetched
       THEN /\ pc' = "deleting_job"
            /\ calls' = Append(cs, Call("DELETE", JobPath(tId), headers', None))
            /\ outcome' = outcome
       ELSE FinallyFile(comp, fId, cs)

\* the promise settled when the finally block starts, the deletes left running
FinallyNotAwaited(comp, tId, fId, cs) ==
    /\ completion' = comp
    /\ IF tryDeleteResource(JobDeletePath(tId), FetchRejects).fetched
       THEN /\ pc' = "deleting_job"
            /\ calls' = Append(cs, Call("DELETE", JobPath(tId), headers', None))
            /\ outcome' = Settle(comp)
       ELSE FinallyFile(comp, fId, cs)

\* the try block completed with comp: the finally block starts
Finally(comp, tId, fId, cs) ==
    /\ completion' = comp
    /\ IF tryDeleteResource(JobDeletePath(tId), FetchRejects).fetched
       THEN /\ pc' = "deleting_job"
            /\ calls' = Append(cs, Call("DELETE", JobPath(tId), headers', None))
            /\ outcome' = outcome
       ELSE FinallyFile(comp, fId, cs)

\* the job-creation request is issued
IssueCreate(audioUrl, fId, cs) ==
    LET mapped == mapProviderOptions(options.modelOptions, options.language)
        body == CreateBody(options.model, audioUrl, fId, mapped)
    IN /\ calls' = Append(cs, Call("POST", TranscriptionsPath, WithContentType(headers'),
                                    Some(body)))
       /\ options' = [options EXCEPT !.modelOptions =
                          OptionsAfterMapping(options.modelOptions, options.language)]
       /\ pc' = "creating"
       /\ UNCHANGED <<completion, outcome>>

\* the head of the loop sending the status request twice
PollIterationTwice(tId, fId, cs) ==
    IF now' - start' > timeoutMs
    THEN /\ Finally(Throw(SonioxTranscriptionTimeoutError), tId, fId, cs)
         /\ polls' = polls
    ELSE /\ calls' = Append(Append(cs, Call("GET", JobPath(tId), headers', None)),
                            Call("GET", JobPath(tId), headers', None))
         /\ pc' = "polling"
         /\ polls' = polls + 1
         /\ UNCHANGED <<completion, outcome>>

\* one pass through the head of the for(;;) of pollForCompletion
PollIteration(tId, fId, cs) ==
    IF now' - start' > timeoutMs
    THEN /\ Finally(Throw(SonioxTranscriptionTimeoutError), tId, fId, cs)
         /\ polls' = polls
    ELSE /\ calls' = Append(cs, Call("GET", JobPath(tId), headers', None))
         /\ pc' = "polling"
         /\ polls' = polls + 1
         /\ UNCHANGED <<completion, outcome>>

\* transcribe is called: everything up to its first await
Begin ==
    /\ pc = "start"
    /\ LET h == buildHeaders(config, env)
           audioUrl == extractAudioUrl(options.audio)
       IN IF h.type = "throw"
          THEN /\ pc' = "done"
               /\ outcome' = Settle(h)
               /\ UNCHANGED <<options, headers, calls, completion>>
          ELSE /\ headers' = h.value
               /\ IF audioUrl = None
                  THEN LET file == prepareAudioFile(options.audio)
                       IN IF file.type = "throw"
                          THEN /\ Finally(file, transcriptionId, fileId, calls)
                               /\ options' = options
                          ELSE /\ calls' = Append(calls,
                                      Call("POST", FilesPath, h.value,
                                           Some([file |-> file.value])))
                               /\ pc' = "uploading"
                               /\ UNCHANGED <<options, completion, outcome>>
                  ELSE IssueCreate(audioUrl, fileId, calls)
    /\ UNCHANGED <<config, env, other, service, fileId, transcriptionId, start, now, polls,
                   statusResponse, received>>

\* the upload response arrives
UploadResponse ==
    /\ pc = "uploading"
    /\ \E r \in Service.upload, lat \in Service.latency :
          LET res == requestJson(r)
              cs == Answered(calls, r)
          IN /\ now' = now + lat
             /\ received' = Some(r)
             /\ headers' = headers
             /\ IF res.type = "throw"
                THEN /\ Finally(res, transcriptionId, fileId, cs)
                     /\ fileId' = fileId
                     /\ options' = options
                ELSE /\ fileId' = Get(res.value, "id")
                     /\ IssueCreate(None, fileId', cs)
    /\ UNCHANGED <<config, env, other, service, transcriptionId, start, polls, statusResponse>>

\* the job-creation response arrives; on success polling begins
CreateResponse ==
    /\ pc = "creating"
    /\ \E r \in Service.create, lat \in Service.latency :
          LET res == requestJson(r)
              cs == Answered(calls, r)
          IN /\ now' = now + lat
             /\ received' = Some(r)
             /\ headers' = headers
             /\ IF res.type = "throw"
                THEN /\ Finally(res, transcriptionId, fileId, cs)
                     /\ UNCHANGED <<transcriptionId, start, polls>>
                ELSE /\ transcriptionId' = Get(res.value, "id")
                     /\ start' = now'
                     /\ PollIteration(transcriptionId', fileId, cs)
    /\ UNCHANGED <<config, env, other, service, options, fileId, statusResponse>>

\* the job failure without the ?? 'Unknown error' fallback
JobFailureWithoutFallback(status) ==
    SonioxTranscriptionError(
        <<"Transcription failed: ",
          IF "error_message" \in DOMAIN status THEN status.error_message ELSE "undefined">>)

\* the error thrown for a status response whose status is 'error'
JobFailure(status) ==
    SonioxTranscriptionError(
        <<"Transcription failed: ",
          IF NotNullish(Get(status, "error_message")) THEN status.error_message
          ELSE "Unknown error">>)

\* a status response arrives; the timeout is compared again on its arrival
StatusResponseTimeoutOnArrival ==
    /\ pc = "polling"
    /\ \E r \in Service.status, lat \in Service.latency :
          LET res == requestJson(r)
              cs == Answered(calls, r)
          IN /\ now' = now + lat
             /\ received' = Some(r)
             /\ headers' = headers
             /\ IF res.type = "throw"
                THEN /\ Finally(res, transcriptionId, fileId, cs)
                     /\ statusResponse' = statusResponse
                ELSE IF now' - start > timeoutMs
                THEN /\ Finally(Throw(SonioxTranscriptionTimeoutError),
                                transcriptionId, fileId, cs)
                     /\ statusResponse' = statusResponse
                ELSE IF Get(res.value, "status") = Some("completed")
                THEN /\ statusResponse' = res.value
                     /\ calls' = Append(cs, Call("GET", TranscriptPath(transcriptionId),
                                                  headers, None))
                     /\ pc' = "fetching"
                     /\ UNCHANGED <<completion, outcome>>
                ELSE IF Get(res.value, "status") = Some("error")
                THEN /\ Finally(Throw(JobFailure(res.value)), transcriptionId, fileId, cs)
                     /\ statusResponse' = statusResponse
                ELSE /\ pc' = "delaying"
                     /\ calls' = cs
                     /\ UNCHANGED <<completion, outcome, statusResponse>>
    /\ UNCHANGED <<config, env, other, service, options, fileId, transcriptionId, start, polls>>

\* a status response arrives; the status 'paused' is taken for 'completed'
StatusResponsePausedCompletes ==
    /\ pc = "polling"
    /\ \E r \in Service.status, lat \in Service.latency :
          LET res == requestJson(r)
              cs == Answered(calls, r)
          IN /\ now' = now + lat
             /\ received' = Some(r)
             /\ headers' = headers
             /\ IF res.type = "throw"
                THEN /\ Finally(res, transcriptionId, fileId, cs)
                     /\ statusResponse' = statusResponse
                ELSE IF Get(res.value, "status") \in {Some("completed"), Some("paused")}
                THEN /\ statusResponse' = res.value
                     /\ calls' = Append(cs, Call("GET", TranscriptPath(transcriptionId),
                                                  headers, None))
                     /\ pc' = "fetching"
                     /\ UNCHANGED <<completion, outcome>>
                ELSE IF Get(res.value, "status") = Some("error")
                THEN /\ Finally(Throw(JobFailure(res.value)), transcriptionId, fileId, cs)
                     /\ statusResponse' = statusResponse
                ELSE /\ pc' = "delaying"
                     /\ calls' = cs
                     /\ UNCHANGED <<completion, outcome, statusResponse>>
    /\ UNCHANGED <<config, env, other, service, options, fileId, transcriptionId, start, polls>>

\* a status response arrives
StatusResponse ==
    /\ pc = "polling"
    /\ \E r \in Service.status, lat \in Service.latency :
          LET res == requestJson(r)
              cs == Answered(calls, r)
          IN /\ now' = now + lat
             /\ received' = Some(r)
             /\ headers' = headers
             /\ IF res.type = "throw"
                THEN /\ Finally(res, transcriptionId, fileId, cs)
                     /\ statusResponse' = statusResponse
                ELSE IF Get(res.value, "status") = Some("completed")
                THEN /\ statusResponse' = res.value
                     /\ calls' = Append(cs, Call("GET", TranscriptPath(transcriptionId),
                                                  headers, None))
                     /\ pc' = "fetching"
                     /\ UNCHANGED <<completion, outcome>>
                ELSE IF Get(res.value, "status") = Some("error")
                THEN /\ Finally(Throw(JobFailure(res.value)), transcriptionId, fileId, cs)
                     /\ statusResponse' = statusResponse
                ELSE /\ pc' = "delaying"
                     /\ calls' = cs
                     /\ UNCHANGED <<completion, outcome, statusResponse>>
    /\ UNCHANGED <<config, env, other, service, options, fileId, transcriptionId, start, polls>>

\* the delay between two status checks ends
\* the delay ends and the loop reads a clock that stands still
DelayDoneClockStopped ==
    /\ pc = "delaying"
    /\ polls >= MaxPolls => now + interval - start > timeoutMs
    /\ now' = now
    /\ start' = start
    /\ headers' = headers
    /\ PollIteration(transcriptionId, fileId, calls)
    /\ UNCHANGED <<config, env, other, service, options, fileId, transcriptionId, statusResponse, received>>

DelayDone ==
    /\ pc = "delaying"
    /\ polls >= MaxPolls => now + interval - start > timeoutMs
    /\ now' = now + interval
    /\ start' = start
    /\ headers' = headers
    /\ PollIteration(transcriptionId, fileId, calls)
    /\ UNCHANGED <<config, env, other, service, options, fileId, transcriptionId, statusResponse, received>>

\* the transcript response arrives
TranscriptResponse ==
    /\ pc = "fetching"
    /\ \E r \in Service.transcript, lat \in Service.latency, random \in RandomSuffixes :
          LET res == requestJson(r)
              cs == Answered(calls, r)
          IN /\ now' = now + lat
             /\ received' = Some(r)
             /\ headers' = headers
             /\ IF res.type = "throw"
                THEN Finally(res, transcriptionId, fileId, cs)
                ELSE Finally(Return(BuildResult(options.model, options.language,
                                                statusResponse, res.value, now', random)),
                             transcriptionId, fileId, cs)
    /\ UNCHANGED <<config, env, other, service, options, fileId, transcriptionId, start, polls,
                   statusResponse>>

\* the DELETE of the job has settled (now is not read after this point)
DeleteJobResponse ==
    /\ pc = "deleting_job"
    /\ \E r \in Service.delete :
          LET done == tryDeleteResource(JobDeletePath(transcriptionId), r).completion
              cs == Answered(calls, r)
          IN /\ headers' = headers
             /\ received' = Some(r)
             /\ IF done.type = "throw"
                THEN /\ completion' = done
                     /\ pc' = "done"
                     /\ calls' = cs
                     /\ outcome' = Settle(done)
                ELSE /\ completion' = completion
                     /\ FinallyFile(completion, fileId, cs)
    /\ UNCHANGED <<config, env, other, service, options, fileId, transcriptionId, start, now, polls,
                   statusResponse>>

\* the DELETE of the uploaded file has settled
DeleteFileResponse ==
    /\ pc = "deleting_file"
    /\ \E r \in Service.delete :
          LET done == tryDeleteResource(FileDeletePath(fileId), r).completion
              final == IF done.type = "throw" THEN done ELSE completion
          IN /\ completion' = final
             /\ received' = Some(r)
             /\ pc' = "done"
             /\ calls' = Answered(calls, r)
             /\ outcome' = Settle(final)
    /\ UNCHANGED <<config, env, other, service, options, headers, fileId, transcriptionId, start, now,
                   polls, statusResponse>>

\* the event loop lets the call that is running wait (it is at an await, or
\* not yet called, or has ended) and goes on with the other one; the file id
\* and the job id stay with the adapter instead of the call
SwitchSharingIds ==
    /\ other.pc \notin {"none", "done"}
    /\ other' = Locals
    /\ options' = other.options
    /\ pc' = other.pc
    /\ headers' = other.headers
    /\ start' = other.start
    /\ polls' = other.polls
    /\ statusResponse' = other.statusResponse
    /\ calls' = other.calls
    /\ received' = other.received
    /\ completion' = other.completion
    /\ outcome' = other.outcome
    /\ UNCHANGED <<config, env, now, service, fileId, transcriptionId>>

\* the event loop lets the call that is running wait (it is at an await, or
\* not yet called, or has ended) and goes on with the other one, whose locals
\* are its own
Switch ==
    /\ other.pc \notin {"none", "done"}
    /\ other' = Locals
    /\ options' = other.options
    /\ pc' = other.pc
    /\ headers' = other.headers
    /\ fileId' = other.fileId
    /\ transcriptionId' = other.transcriptionId
    /\ start' = other.start
    /\ polls' = other.polls
    /\ statusResponse' = other.statusResponse
    /\ calls' = other.calls
    /\ received' = other.received
    /\ completion' = other.completion
    /\ outcome' = other.outcome
    /\ UNCHANGED <<config, env, now, service>>

Init ==
    /\ \E s \in Setups : config = s.config /\ env = s.env
    /\ options \in Requests
    /\ pc = "start"
    /\ headers = EmptyObject
    /\ fileId = None
    /\ transcriptionId = None
    /\ start = 0
    /\ now = 0
    /\ polls = 0
    /\ statusResponse = EmptyObject
    /\ calls = <<>>
    /\ received = None
    /\ completion = NoCompletion
    /\ outcome = Pending
    /\ other = NoCall
    /\ service = "any"

\* a call exercising the Option Mapper, on an adapter with a configured key
InitMapper ==
    /\ config = [apiKey |-> Some("test-key"), timeout |-> Some(150000),
                 pollingIntervalMs |-> Some(1), headers |-> EmptyObject]
    /\ env = None
    /\ options \in MapperRequests
    /\ pc = "start"
    /\ headers = EmptyObject
    /\ fileId = None
    /\ transcriptionId = None
    /\ start = 0
    /\ now = 0
    /\ polls = 0
    /\ statusResponse = EmptyObject
    /\ calls = <<>>
    /\ received = None
    /\ completion = NoCompletion
    /\ outcome = Pending
    /\ other = NoCall
    /\ service = "any"

Next ==
    \/ Begin
    \/ UploadResponse
    \/ CreateResponse
    \/ StatusResponse
    \/ DelayDone
    \/ TranscriptResponse
    \/ DeleteJobResponse
    \/ DeleteFileResponse

Spec == Init /\ [][Next]_vars

SpecMapper == InitMapper /\ [][Next]_vars

\* two calls of one adapter, neither begun yet: one with URL audio and no
\* modelOptions, one with audio to upload
InitConcurrent ==
    /\ config = [apiKey |-> Some("test-key"), timeout |-> None,
                 pollingIntervalMs |-> None, headers |-> EmptyObject]
    /\ env = None
    /\ options = [model |-> "stt-async-v3",
                  audio |-> [type |-> "string", value |-> HttpsPrefix \o <<"a">>],
                  language |-> None, modelOptions |-> EmptyObject]
    /\ pc = "start"
    /\ headers = EmptyObject
    /\ fileId = None
    /\ transcriptionId = None
    /\ start = 0
    /\ now = 0
    /\ polls = 0
    /\ statusResponse = EmptyObject
    /\ calls = <<>>
    /\ received = None
    /\ completion = NoCompletion
    /\ outcome = Pending
    /\ other = [Locals EXCEPT !.options =
                    [model |-> "stt-async-v3",
                     audio |-> [type |-> "ArrayBuffer", value |-> <<>>],
                     language |-> Some("en"),
                     modelOptions |-> [languageHints |-> <<"en", "es">>]]]
    /\ service = "two calls"

\* a call whose transcript is any of the token lists: URL audio and no
\* language, or audio to upload and a language
InitNormalizer ==
    /\ config = [apiKey |-> Some("test-key"), timeout |-> None,
                 pollingIntervalMs |-> None, headers |-> EmptyObject]
    /\ env = None
    /\ options \in { [model |-> "stt-async-v3",
                       audio |-> [type |-> "string", value |-> HttpsPrefix \o <<"a">>],
                       language |-> None, modelOptions |-> EmptyObject],
                      [model |-> "stt-async-v3",
                       audio |-> [type |-> "ArrayBuffer", value |-> <<>>],
                       language |-> Some("de"), modelOptions |-> EmptyObject] }
    /\ pc = "start"
    /\ headers = EmptyObject
    /\ fileId = None
    /\ transcriptionId = None
    /\ start = 0
    /\ now = 0
    /\ polls = 0
    /\ statusResponse = EmptyObject
    /\ calls = <<>>
    /\ received = None
    /\ completion = NoCompletion
    /\ outcome = Pending
    /\ other = NoCall
    /\ service = "transcripts"

SpecNormalizer == InitNormalizer /\ [][Next]_vars

\* a call on an adapter whose timeout is no longer than one polling interval;
\* every request is eventually answered and every delay eventually ends
InitLive ==
    /\ \E t \in {0, 1} :
          config = [apiKey |-> Some("test-key"), timeout |-> Some(t),
                    pollingIntervalMs |-> Some(1), headers |-> EmptyObject]
    /\ env = None
    /\ options \in Requests
    /\ pc = "start"
    /\ headers = EmptyObject
    /\ fileId = None
    /\ transcriptionId = None
    /\ start = 0
    /\ now = 0
    /\ polls = 0
    /\ statusResponse = EmptyObject
    /\ calls = <<>>
    /\ received = None
    /\ completion = NoCompletion
    /\ outcome = Pending
    /\ other = NoCall
    /\ service = "any"

SpecLive == InitLive /\ [][Next]_vars /\ WF_vars(Next)

NextConcurrent ==
    \/ Next
    \/ Switch

SpecConcurrent == InitConcurrent /\ [][NextConcurrent]_vars

----------------------------------------------------------------------------
(* Properties *)

Uploads == Indices(calls, IsUpload)
Creates == Indices(calls, IsCreate)
Statuses == Indices(calls, IsStatus)
Transcripts == Indices(calls, IsTranscript)
Deletes == Indices(calls, IsDelete)
JobDeletes == Indices(calls, IsJobDelete)
FileDeletes == Indices(calls, IsFileDelete)

Failed(c) == c.result \in {"rejected", "http_error"}
Rejected == outcome.state = "rejected"
Fulfilled == outcome.state = "fulfilled"
RejectedWith(name) == Rejected /\ outcome.reason.name = name

\* a job id (file id) was recorded: the DELETE aimed at it is among the calls
JobDeleteAttempted == \E i \in JobDeletes : calls[i].path = JobPath(transcriptionId)
FileDeleteAttempted == \E i \in FileDeletes : calls[i].path = FilePath(fileId)

\* C1: however transcribe ends (result, timeout, job failure, API, parse or
\* network error at any step), once it has settled a DELETE of the job was
\* issued if a job id was recorded, and a DELETE of the file if a file id was
\* recorded.
C1_CleanupOnEveryExit ==
    pc = "done" =>
        /\ Truthy(transcriptionId) => JobDeleteAttempted
        /\ Truthy(fileId) => FileDeleteAttempted

\* C1 case: a call that failed in polling after recording both ids has settled
C1_Witness ==
    /\ pc = "done"
    /\ RejectedWith("SonioxApiError")
    /\ Statuses # {}
    /\ Truthy(transcriptionId) /\ Truthy(fileId)
    /\ JobDeleteAttempted /\ FileDeleteAttempted

\* a step of the finally block leaves the completion of the try block alone
FinallyKeepsCompletion ==
    pc \in {"deleting_job", "deleting_file"} =>
        /\ completion' = completion
        /\ pc' = "done" => outcome' = Settle(completion)

\* C2: while the finally block runs, no answer to a DELETE (rejected fetch,
\* non-success status) replaces the completion of the try block, and the
\* promise settles on exactly that completion.
C2_CleanupFailureKeepsOutcome == [][FinallyKeepsCompletion]_vars

\* C2 case: both DELETEs failed, one by a rejected fetch and one by a
\* non-success status, and the call still resolved with its result
C2_Witness ==
    /\ pc = "done"
    /\ Fulfilled
    /\ \E i \in JobDeletes : calls[i].result = "rejected"
    /\ \E i \in FileDeletes : calls[i].result = "http_error"

\* C3: when a job id and a file id were recorded and the job DELETE failed,
\* the file DELETE is still issued (after it).
C3_FileDeleteDespiteJobDeleteFailure ==
    pc = "done" /\ Truthy(transcriptionId) /\ Truthy(fileId) =>
        \A i \in JobDeletes : Failed(calls[i]) =>
            \E j \in FileDeletes : j > i /\ calls[j].path = FilePath(fileId)

\* C3 case: the job DELETE was rejected and the file DELETE was issued
C3_Witness ==
    /\ pc = "done"
    /\ \E i \in JobDeletes : calls[i].result = "rejected"
    /\ FileDeleteAttempted

\* C4: at most one DELETE per resource, the job's before the file's; a call
\* that recorded a file id and a job id has issued exactly two DELETEs when it
\* settles, whatever happened after job creation.
C4_DeletesOnceAndOrdered ==
    /\ Cardinality(JobDeletes) <= 1
    /\ Cardinality(FileDeletes) <= 1
    /\ \A i \in JobDeletes, j \in FileDeletes : i < j
    /\ pc = "done" /\ Truthy(transcriptionId) /\ Truthy(fileId) =>
           /\ Cardinality(Deletes) = 2
           /\ JobDeleteAttempted /\ FileDeleteAttempted

\* C4 case: a call that uploaded, created a job and then timed out has settled
C4_Witness ==
    /\ pc = "done"
    /\ RejectedWith("SonioxTranscriptionTimeoutError")
    /\ Truthy(transcriptionId) /\ Truthy(fileId)
    /\ Cardinality(Deletes) = 2

\* the audio the claim calls URL-classified
IsUrlAudio(audio) ==
    \/ audio.type = "URL"
    \/ audio.type = "string" /\ (StartsWith(audio.value, HttpsPrefix)
                                  \/ StartsWith(audio.value, HttpPrefix))

\* the request passes the checks made before any network activity: an API key
\* is found and the audio, if it is no URL, converts to a file
ValidRequest ==
    /\ buildHeaders(config, env).type = "return"
    /\ IsUrlAudio(options.audio) \/ prepareAudioFile(options.audio).type = "return"

\* C5 as stated: no upload for URL audio, and for every other audio input
\* exactly one upload, answered before the job-creation request is issued.
C5_Original ==
    /\ IsUrlAudio(options.audio) => Uploads = {}
    /\ ~IsUrlAudio(options.audio) =>
           /\ pc # "start" => Cardinality(Uploads) = 1
           /\ \A c \in Creates : \E u \in Uploads : u < c /\ calls[u].result = "ok"

\* C5 (amended): for URL audio no upload is ever issued; for any other audio
\* for which an API key is found and which converts to a file, exactly one
\* upload is issued, and a job-creation request only after it was answered;
\* for the remaining audio (no key, unconvertible input) no upload is issued.
C5_UploadIffNotUrl ==
    /\ IsUrlAudio(options.audio) => Uploads = {}
    /\ ~IsUrlAudio(options.audio) =>
           /\ ValidRequest /\ pc # "start" => Cardinality(Uploads) = 1
           /\ ~ValidRequest => Uploads = {}
           /\ \A c \in Creates : \E u \in Uploads : u < c /\ calls[u].result = "ok"

\* C5 case: audio that is no URL was uploaded and the job then created
C5_Witness ==
    /\ ~IsUrlAudio(options.audio)
    /\ Uploads = {1}
    /\ Creates = {2}
    /\ Fulfilled

\* C6: every job-creation body holds exactly one of audio_url and file_id:
\* audio_url alone for URL audio, file_id alone for uploaded audio, whatever the
\* successful upload response was.
C6_ExactlyOneAudioField ==
    \A i \in Creates :
        LET body == calls[i].body[1]
        IN IF IsUrlAudio(options.audio)
           THEN "audio_url" \in DOMAIN body /\ "file_id" \notin DOMAIN body
           ELSE "file_id" \in DOMAIN body /\ "audio_url" \notin DOMAIN body

TimedOut == completion = Throw(SonioxTranscriptionTimeoutError)

\* once polling has timed out the call fails with the timeout error and has
\* attempted the DELETE of the job, and of the file, it recorded
AfterTimeout ==
    TimedOut =>
        /\ pc \in {"deleting_job", "deleting_file", "done"}
        /\ pc = "done" =>
               /\ outcome = [state |-> "rejected", reason |-> SonioxTranscriptionTimeoutError]
               /\ Truthy(transcriptionId) => JobDeleteAttempted
               /\ Truthy(fileId) => FileDeleteAttempted

\* a delay that ends with more than the configured timeout elapsed since
\* polling began ends polling with the timeout error, and no status request
\* is issued then or later
TimeoutStep ==
    /\ pc = "delaying" /\ config.timeout # None /\ now' - start > config.timeout[1]
           => TimedOut' /\ Indices(calls', IsStatus) = Statuses
    /\ TimedOut => Indices(calls', IsStatus) = Statuses

\* C7: when the status has not become terminal and, at the next check, more
\* than the configured timeout has elapsed since polling began, transcribe
\* fails with the timeout error, issues no further status request, and still
\* attempts the DELETE of the job and (if a file was uploaded) of the file.
C7_TimeoutStopsPollingAndCleansUp == []AfterTimeout /\ [][TimeoutStep]_vars

\* C7 case: a call with a configured timeout, a job and an uploaded file has
\* timed out and settled
C7_Witness ==
    /\ pc = "done"
    /\ config.timeout # None
    /\ RejectedWith("SonioxTranscriptionTimeoutError")
    /\ JobDeleteAttempted /\ FileDeleteAttempted

\* C8: with no timeout configured, no status request is issued once more than
\* 180000 ms have elapsed since polling began (the check that precedes a status
\* request and the request are one step, so while the request is in flight
\* now - start is the time that had elapsed at the check).
C8_DefaultTimeoutIs180000 ==
    config.timeout = None /\ pc = "polling" => now - start <= DocumentedTimeoutMs

\* the response is a status response that says 'error'
StatusSaysError(r) ==
    /\ r.net /\ ResponseOk(r)
    /\ r.body.readable /\ r.body.text # "" /\ r.body.parsed # None
    /\ "status" \in DOMAIN r.body.parsed[1]
    /\ r.body.parsed[1].status = "error"

\* the message the claim gives the job-failure error
ClaimedFailureMessage(body) ==
    <<"Transcription failed: ",
      IF "error_message" \in DOMAIN body /\ body.error_message # Null
      THEN body.error_message ELSE "Unknown error">>

JobFailed ==
    /\ completion.type = "throw"
    /\ completion.value.name = "SonioxTranscriptionError"
    /\ completion.value.message[1] = "Transcription failed: "

\* a status response saying 'error' ends the try block with the job failure
ErrorStatusStep ==
    pc = "polling" /\ StatusSaysError(received'[1]) =>
        /\ completion' = Throw([name |-> "SonioxTranscriptionError",
                                message |-> ClaimedFailureMessage(received'[1].body.parsed[1])])
        /\ pc' \in {"deleting_job", "deleting_file", "done"}

\* after a job failure no transcript request exists and the call rejects with it
AfterJobFailure ==
    JobFailed =>
        /\ Transcripts = {}
        /\ pc \in {"deleting_job", "deleting_file", "done"}
        /\ pc = "done" => outcome = [state |-> "rejected", reason |-> completion.value]

\* C9: a status response with status 'error' makes transcribe fail with the
\* job-failure error whose message carries error_message, or 'Unknown error'
\* when error_message is absent or null, and no transcript request follows.
C9_JobFailure == []AfterJobFailure /\ [][ErrorStatusStep]_vars

\* C9 case: a status response {status: 'error', error_message: null} has just
\* been processed
C9_Witness ==
    /\ received # None
    /\ StatusSaysError(received[1])
    /\ "error_message" \in DOMAIN received[1].body.parsed[1]
    /\ received[1].body.parsed[1].error_message = Null
    /\ JobFailed
    /\ completion.value.message[2] = "Unknown error"

CreateRefused == \E i \in Creates : calls[i].result = "http_error"

\* a job-creation response with a non-success status ends the try block with
\* the API error of that status
CreateRefusedStep ==
    pc = "creating" /\ received'[1].net /\ ~ResponseOk(received'[1]) =>
        /\ completion'.type = "throw"
        /\ completion'.value.name = "SonioxApiError"
        /\ completion'.value.status = received'[1].status

\* after a refused job creation: no status, transcript or job DELETE request,
\* and once settled a file DELETE exactly when a file id was recorded
AfterCreateRefused ==
    CreateRefused =>
        /\ Statuses = {} /\ Transcripts = {} /\ JobDeletes = {}
        /\ FileDeletes # {} => FileDeleteAttempted
        /\ pc = "done" =>
               /\ RejectedWith("SonioxApiError")
               /\ outcome.reason = completion.value
               /\ FileDeletes # {} <=> Truthy(fileId)

\* C10: a non-success status on job creation makes transcribe fail with the
\* API error of that status, with no status poll, no transcript fetch and no
\* job DELETE, and with the file DELETE if and only if a file was uploaded
\* (the upload returned the id of the file).
C10_CreateRefused == []AfterCreateRefused /\ [][CreateRefusedStep]_vars

\* C10 case: job creation answered 401 after an upload, and the call settled
C10_Witness ==
    /\ pc = "done"
    /\ CreateRefused
    /\ RejectedWith("SonioxApiError")
    /\ outcome.reason.status = 401
    /\ FileDeleteAttempted

\* the fields of a TranscriptionResult as transcribe builds it
ResultFields == {"id", "model", "text", "language", "duration", "segments", "providerMetadata"}

\* every step of the workflow succeeded: the upload (needed exactly when the
\* audio is no URL), the job creation, a status check that said 'completed',
\* and the transcript request
WorkflowSucceeded ==
    /\ \A i \in Uploads \cup Creates \cup Statuses \cup Transcripts : calls[i].result = "ok"
    /\ Cardinality(Uploads) = (IF IsUrlAudio(options.audio) THEN 0 ELSE 1)
    /\ Cardinality(Creates) = 1
    /\ Statuses # {}
    /\ Get(statusResponse, "status") = Some("completed")
    /\ Cardinality(Transcripts) = 1

\* C11: transcribe settles in exactly one of two ways.  It resolves, with a
\* result holding every field of a TranscriptionResult, only when upload (if
\* any), create, a 'completed' status check and the transcript request all
\* succeeded; otherwise it rejects with an error and delivers no value at all.
\* Until it has ended it is pending.
C11_TwoOutcomes ==
    /\ pc # "done" <=> outcome = Pending
    /\ pc = "done" => Fulfilled \/ Rejected
    /\ Fulfilled =>
           /\ WorkflowSucceeded
           /\ DOMAIN outcome = {"state", "value"}
           /\ DOMAIN outcome.value = ResultFields
           /\ completion = Return(outcome.value)
    /\ Rejected =>
           /\ DOMAIN outcome = {"state", "reason"}
           /\ {"name", "message"} \subseteq DOMAIN outcome.reason
    /\ pc = "done" /\ ~WorkflowSucceeded => Rejected

\* C11 case: a call whose transcript request was answered with a non-success
\* status, after a successful upload, creation and 'completed' status, rejected
C11_Witness ==
    /\ pc = "done"
    /\ Rejected
    /\ Uploads # {} /\ Statuses # {}
    /\ \E i \in Transcripts : calls[i].result = "http_error"

\* no API key in the configuration and none in the environment
KeyMissing == ~NotNullish(config.apiKey) /\ ~Truthy(env)

\* audio that is none of string, URL, File, Blob, ArrayBuffer, Uint8Array
UnrecognizedAudio ==
    options.audio.type \notin {"string", "URL", "File", "Blob", "ArrayBuffer", "Uint8Array"}

\* C12: when the API key is missing from both configuration and environment,
\* or the audio input is of an unrecognized type, transcribe fails (with a
\* plain Error) and no HTTP request is ever issued: no upload, create, status,
\* transcript or DELETE request.
C12_NoRequestOnInvalidCall ==
    KeyMissing \/ UnrecognizedAudio =>
        /\ calls = <<>>
        /\ pc \in {"start", "done"}
        /\ pc = "done" => RejectedWith("Error")

\* C12 case: a call with a key and audio of an unrecognized type has failed
C12_Witness ==
    /\ pc = "done"
    /\ ~KeyMissing /\ UnrecognizedAudio
    /\ outcome = [state |-> "rejected", reason |-> PlainError(<<"Invalid audio input type">>)]
    /\ calls = <<>>

\* the await at which the call waits for the response to a JSON request
AwaitsJson == pc \in {"uploading", "creating", "polling", "fetching"}

\* what is done with the value v a JSON request yielded: the upload's id
\* becomes the file id, the creation's id the job id, a 'completed' status the
\* final status, the transcript's text the text of the result
JsonValueUsed(v) ==
    /\ pc = "uploading" => fileId' = Get(v, "id")
    /\ pc = "creating" => transcriptionId' = Get(v, "id")
    /\ pc = "polling" /\ Get(v, "status") = Some("completed") => statusResponse' = v
    /\ pc = "fetching" =>
           /\ completion'.type = "return"
           /\ completion'.value.text = (IF NotNullish(Get(v, "text")) THEN v.text ELSE "")

\* the step that receives the response r to a JSON request
JsonResponseStep ==
    AwaitsJson /\ received'[1].net =>
        LET r == received'[1]
            res == requestJson(r)
        IN IF r.status \notin 200..299
           THEN /\ res.type = "throw"
                /\ res.value.name = "SonioxApiError"
                /\ res.value.status = r.status
                /\ res.value.statusText = r.statusText
                /\ res.value.body = (IF r.body.readable THEN r.body.text ELSE "")
                /\ completion' = res
           ELSE IF ~r.body.readable \/ r.body.text = ""
           THEN res = Return(EmptyObject) /\ JsonValueUsed(EmptyObject)
           ELSE IF r.body.parsed # None
           THEN res = Return(r.body.parsed[1]) /\ JsonValueUsed(r.body.parsed[1])
           ELSE /\ res = Throw([name |-> "SonioxTranscriptionError",
                                 message |-> <<"Failed to parse Soniox response JSON">>])
                /\ completion' = res

\* C13: for each of the upload, create, status and transcript requests, a
\* response with a non-success status fails the request with an API error
\* carrying the status, the status text and the body text (empty when the
\* body cannot be read); a response with a success status yields the empty
\* object for an empty or unreadable body, the parsed value for a parsable
\* body, and fails with the parse error for a non-empty unparsable body.
C13_RequestJson == [][JsonResponseStep]_vars

\* C13 case: an upload answered 200 with an unreadable body yielded the empty
\* object, and the job creation was requested without a file id
C13_Witness ==
    /\ pc = "creating"
    /\ received = Some(Http(200, "OK", UnreadableBody))
    /\ calls[1].result = "ok"
    /\ fileId = None

ErrorKinds == {"configuration", "invalid_input", "api", "timeout", "job_failure", "parse"}

\* an error of each kind, as the code constructs it
ErrorOfKind(kind) ==
    CASE kind = "configuration" -> getSonioxApiKeyFromEnv(None).value
      [] kind = "invalid_input" -> prepareAudioFile([type |-> "number", value |-> <<>>]).value
      [] kind = "api" -> requestJson(Http(401, "Unauthorized", TextBody("denied"))).value
      [] kind = "timeout" -> SonioxTranscriptionTimeoutError
      [] kind = "job_failure" -> JobFailure([status |-> "error"])
      [] kind = "parse" -> requestJson(Http(200, "OK", TextBody("<html>"))).value

\* this step makes transcribe fail
FailingStep ==
    \/ completion.type = "none" /\ completion'.type = "throw"
    \/ pc = "start" /\ outcome'.state = "rejected"

\* the error a failing step throws
Thrown == IF completion'.type = "throw" THEN completion'.value ELSE outcome'.reason

\* the kind of failure of a failing step, told from its cause ("other": fetch
\* itself rejected, or a string that is not base64)
KindOfStep ==
    IF pc = "start"
    THEN (IF KeyMissing THEN "configuration"
          ELSE IF UnrecognizedAudio THEN "invalid_input" ELSE "other")
    ELSE IF pc = "delaying" THEN "timeout"
    ELSE IF ~received'[1].net THEN "other"
    ELSE IF ~ResponseOk(received'[1]) THEN "api"
    ELSE IF received'[1].body.readable /\ received'[1].body.text # ""
            /\ received'[1].body.parsed = None THEN "parse"
    ELSE IF pc = "polling" THEN "job_failure"
    ELSE "timeout"

\* the thrown error is told from the errors of every other kind by its name,
\* and carries the fields of its kind
ErrorKindStep ==
    FailingStep /\ KindOfStep # "other" =>
        /\ \A k \in ErrorKinds \ {KindOfStep} : ErrorOfKind(k).name # Thrown.name
        /\ KindOfStep = "api" =>
               /\ Thrown.status = received'[1].status
               /\ Thrown.statusText = received'[1].statusText
               /\ Thrown.body = safeReadText(received'[1])
        /\ KindOfStep = "job_failure" =>
               Thrown.message[2] = ClaimedFailureMessage(received'[1].body.parsed[1])[2]

\* C14: whichever of the six kinds of failure (configuration, invalid input,
\* API error, timeout, job failure, response parse error) makes transcribe
\* fail, the error's kind (the name of its class) differs from that of the
\* errors of the five other kinds; an API error exposes status, statusText
\* and body, a job failure the message of the remote service.
C14_KindsDistinguishable == [][ErrorKindStep]_vars

\* the requests of call c that name a job or a file name the job id and the
\* file id c holds, and follow the successful creation, or upload, by c
\* itself that returned the id
OwnRequests(c) ==
    LET cs == c.calls
        ownCreate(i) == \E j \in Indices(cs, IsCreate) : j < i /\ cs[j].result = "ok"
        ownUpload(i) == \E j \in Indices(cs, IsUpload) : j < i /\ cs[j].result = "ok"
    IN /\ \A i \in Indices(cs, IsStatus) \cup Indices(cs, IsTranscript)
                                         \cup Indices(cs, IsJobDelete) :
              cs[i].path[2] = TemplateString(c.transcriptionId) /\ ownCreate(i)
       /\ \A i \in Indices(cs, IsFileDelete) :
              cs[i].path = FilePath(c.fileId) /\ ownUpload(i)
       /\ \A i \in Indices(cs, IsCreate) :
              "file_id" \in DOMAIN cs[i].body[1] =>
                  cs[i].body[1].file_id = c.fileId[1] /\ ownUpload(i)

\* a step of the running call leaves the other call as it was and changes
\* the ids it holds only to the id in the answer to its own upload or job
\* creation; a step of the event loop from one call to the other leaves both
\* calls as they were; no step writes the configuration
IndependentStep ==
    /\ config' = config
    /\ env' = env
    /\ \/ /\ other' = other
          /\ fileId' = (IF pc = "uploading" /\ requestJson(received'[1]).type = "return"
                        THEN Get(requestJson(received'[1]).value, "id") ELSE fileId)
          /\ transcriptionId' =
                 (IF pc = "creating" /\ requestJson(received'[1]).type = "return"
                  THEN Get(requestJson(received'[1]).value, "id") ELSE transcriptionId)
       \/ /\ other' = Locals
          /\ Locals' = other

\* C15: with two calls of one adapter in progress, in any interleaving, each
\* call polls, fetches and deletes only the job and the file whose ids were
\* returned to it; transcribe never writes the adapter's configuration; and
\* no step of one call changes anything of the other call, so that each call
\* goes through the steps, and ends with the outcome, it has when run alone.
C15_CallsIndependent ==
    /\ [](OwnRequests(Locals) /\ (other.pc # "none" => OwnRequests(other)))
    /\ [][IndependentStep]_vars

\* C15 case: one call is deleting its job while the other, which uploaded a
\* file, awaits the transcript of a different job
C15_Witness ==
    /\ other.pc # "none"
    /\ {pc, other.pc} = {"deleting_job", "fetching"}
    /\ Truthy(transcriptionId) /\ Truthy(other.transcriptionId)
    /\ transcriptionId # other.transcriptionId
    /\ {fileId, other.fileId} = {None, Some("file-1")}

\* the API key of the call: the configured one, or else the environment's
ResolvedApiKey == IF config.apiKey # None THEN config.apiKey[1] ELSE env[1]

\* C16 as stated: every request carries authorization: Bearer <apiKey> and the
\* caller-configured extra headers.
C16_Original ==
    \A i \in 1..Len(calls) :
        /\ "authorization" \in DOMAIN calls[i].headers
        /\ calls[i].headers.authorization = <<"Bearer ", ResolvedApiKey>>
        /\ \A k \in DOMAIN config.headers :
               k \in DOMAIN calls[i].headers /\ calls[i].headers[k] = config.headers[k]

\* C16 (amended): every request (upload, create, status, transcript, both
\* DELETEs) carries an authorization header and every caller-configured extra
\* header's name; the authorization header is Bearer <apiKey> (configured key,
\* else the environment's) unless the extra headers hold an authorization
\* entry, which then is the one sent; every extra header is sent with the
\* caller's value, except a content-type on the job-creation request, which
\* is application/json.
C16_Headers ==
    \A i \in 1..Len(calls) :
        /\ "authorization" \in DOMAIN calls[i].headers
        /\ "authorization" \notin DOMAIN config.headers =>
               calls[i].headers.authorization = <<"Bearer ", ResolvedApiKey>>
        /\ \A k \in DOMAIN config.headers :
               /\ k \in DOMAIN calls[i].headers
               /\ calls[i].headers[k] =
                      (IF k = "content_type" /\ IsCreate(calls[i])
                       THEN <<"application/json">> ELSE config.headers[k])

\* C16 case: a call of an adapter with a configured key, a key in the
\* environment and extra headers has issued all six kinds of request
C16_Witness ==
    /\ pc = "done"
    /\ config.apiKey # None /\ env # None
    /\ "x_trace" \in DOMAIN config.headers
    /\ Uploads # {} /\ Creates # {} /\ Statuses # {} /\ Transcripts # {}
    /\ JobDeletes # {} /\ FileDeletes # {}

\* the caller's languageHints (none given: the empty list)
CallerHints == Coalesce(Get(options.modelOptions, "languageHints"), <<>>)

\* the caller's hints in their order, the request-level language after them
\* when there is one and it is not among them
ExpectedHints ==
    IF options.language # None /\ ~Includes(CallerHints, options.language[1])
    THEN Append(CallerHints, options.language[1])
    ELSE CallerHints

\* C17: the language_hints of the job-creation body are the caller's
\* languageHints in their original order, with the request-level language
\* appended at the end if and only if it is present and not already in the
\* list; when that list is empty the body has no language_hints field.
C17_LanguageHints ==
    \A i \in Creates :
        LET body == calls[i].body[1]
        IN IF ExpectedHints = <<>>
           THEN "language_hints" \notin DOMAIN body
           ELSE "language_hints" \in DOMAIN body /\ body.language_hints = ExpectedHints

\* C17 case: hints en, es and the request-level language fr were sent as
\* en, es, fr
C17_Witness ==
    /\ CallerHints = <<"en", "es">>
    /\ options.language = Some("fr")
    /\ \E i \in Creates : calls[i].body[1].language_hints = <<"en", "es", "fr">>

C19_OptionsUnchanged == [][options' = options]_vars

\* C19 case: the request-level language was merged into the hints sent,
\* and the caller's list is still without it
C19_Witness ==
    /\ pc = "done"
    /\ options.language = Some("fr")
    /\ CallerHints = <<"es", "en", "es">>
    /\ \E i \in Creates : calls[i].body[1].language_hints = <<"es", "en", "es", "fr">>

\* the translation the caller gave, if any
CallerTranslation == Get(options.modelOptions, "translation")

\* C20: the translation of the job-creation body is {type: 'one_way',
\* target_language} for the one-way variant and {type: 'two_way', language_a,
\* language_b} for the two-way variant, with exactly these fields (no field of
\* the other variant); without a translation the body has no translation
\* field.
C20_Translation ==
    \A i \in Creates :
        LET body == calls[i].body[1]
        IN IF CallerTranslation = None
           THEN "translation" \notin DOMAIN body
           ELSE /\ "translation" \in DOMAIN body
                /\ body.translation =
                       (IF CallerTranslation[1].type = "one_way"
                        THEN [type |-> "one_way",
                              target_language |-> CallerTranslation[1].targetLanguage]
                        ELSE [type |-> "two_way",
                              language_a |-> CallerTranslation[1].languageA,
                              language_b |-> CallerTranslation[1].languageB])

\* C20 case: a one-way translation given as an object that also holds a
\* languageA was sent as type and target_language alone
C20_Witness ==
    /\ CallerTranslation # None
    /\ "languageA" \in DOMAIN CallerTranslation[1]
    /\ CallerTranslation[1].type = "one_way"
    /\ \E i \in Creates :
           calls[i].body[1].translation = [type |-> "one_way", target_language |-> "es"]

\* the token list of the transcript response r (none sent: the empty list)
TokensOf(r) ==
    IF r.body.readable /\ r.body.text # "" /\ r.body.parsed # None
       /\ "tokens" \in DOMAIN r.body.parsed[1]
    THEN r.body.parsed[1].tokens ELSE <<>>

\* the segments of the result v (undefined: none)
SegmentsOf(v) == IF v.segments = None THEN <<>> ELSE v.segments[1]

\* this step receives the transcript and builds the result
ResultStep == pc = "fetching" /\ completion'.type = "return"

\* the token has a start and an end timestamp, and its translation status is
\* absent, null, 'original' or 'none'
Qualifies(t) ==
    /\ t.start_ms # None
    /\ t.end_ms # None
    /\ t.translation_status \in {None, Some(Null), Some("original"), Some("none")}

Qualifying(toks) == {i \in 1..Len(toks) : Qualifies(toks[i])}

\* seg is the segment of token t
SegmentOf(seg, t) ==
    /\ seg.text = t.text
    /\ seg.start = [ms |-> t.start_ms[1], per |-> 1000]
    /\ seg.end = [ms |-> t.end_ms[1], per |-> 1000]

SegmentsStep ==
    ResultStep =>
        LET toks == TokensOf(received'[1])
            segs == SegmentsOf(completion'.value)
        IN /\ Len(segs) = Cardinality(Qualifying(toks))
           /\ \A i \in Qualifying(toks) : \E k \in 1..Len(segs) : SegmentOf(segs[k], toks[i])
           /\ \A k \in 1..Len(segs) : \E i \in Qualifying(toks) : SegmentOf(segs[k], toks[i])

\* C21: the segments of the result are the segments of exactly the tokens
\* that carry both a start and an end timestamp (0 included) and whose
\* translation status is absent, null, 'original' or 'none': one segment for
\* each such token, none for any other (a token lacking a timestamp never
\* appears).
C21_SegmentFilter == [][SegmentsStep]_vars

\* C21 case: of a token without end, a token timed from 0 and a timed
\* translation token, only the second became a segment
C21_Witness ==
    /\ pc = "deleting_job"
    /\ TokensOf(received[1]) = <<HalfTimed, Hello, Hola>>
    /\ Len(SegmentsOf(completion.value)) = 1
    /\ SegmentOf(SegmentsOf(completion.value)[1], Hello)

\* the place in toks of its k-th qualifying token
PlaceOf(toks, k) ==
    CHOOSE i \in Qualifying(toks) : Cardinality({j \in Qualifying(toks) : j <= i}) = k

SegmentOrderStep ==
    ResultStep =>
        LET toks == TokensOf(received'[1])
            segs == SegmentsOf(completion'.value)
        IN /\ Len(segs) = Cardinality(Qualifying(toks))
           /\ \A k \in 1..Len(segs) :
                  /\ segs[k].id = k - 1
                  /\ SegmentOf(segs[k], toks[PlaceOf(toks, k)])

\* C22: the ids of the segments are 0, 1, ..., n-1 in this order, numbered
\* after the filtering, and the k-th segment is the segment of the k-th
\* qualifying token of the token list, whatever the timestamps.
C22_SegmentIds == [][SegmentOrderStep]_vars

\* C22 case: a late token, an untimed token and an early token, in this
\* order, gave the segments 0 (late) and 1 (early)
C22_Witness ==
    /\ pc = "deleting_job"
    /\ TokensOf(received[1]) = <<Late, Untimed, Hello>>
    /\ Len(SegmentsOf(completion.value)) = 2
    /\ SegmentsOf(completion.value)[1].id = 0
    /\ SegmentsOf(completion.value)[1].text = "late"
    /\ SegmentsOf(completion.value)[2].id = 1
    /\ SegmentsOf(completion.value)[2].text = "hello"

SegmentsFieldStep ==
    ResultStep =>
        LET toks == TokensOf(received'[1])
            v == completion'.value
        IN /\ v.segments # Some(<<>>)
           /\ Qualifying(toks) = {} <=> v.segments = None
           /\ Qualifying(toks) # {} => Len(v.segments[1]) = Cardinality(Qualifying(toks))

\* C23: the segments field of the result is never an empty list: it is
\* undefined when no token qualifies (no token list, an empty one, or one of
\* tokens that all fail the filter) and a non-empty list otherwise.
C23_SegmentsNeverEmpty == [][SegmentsFieldStep]_vars

\* C23 case: a transcript of three tokens none of which qualifies gave a
\* result without segments
C23_Witness ==
    /\ pc = "deleting_job"
    /\ TokensOf(received[1]) = <<Hola, Untimed, HalfTimed>>
    /\ completion.type = "return"
    /\ completion.value.segments = None

\* the languages the tokens carry
LanguagesOf(toks) ==
    {toks[i].language[1] : i \in {j \in 1..Len(toks) : Truthy(toks[j].language)}}

Occurrences(toks, l) == Cardinality({i \in 1..Len(toks) : toks[i].language = Some(l)})

FirstOccurrence(toks, l) ==
    CHOOSE i \in 1..Len(toks) :
        toks[i].language = Some(l) /\ \A j \in 1..(i - 1) : toks[j].language # Some(l)

\* the language of most tokens, the one seen first among equals; the
\* caller's language when no token carries one
ExpectedLanguage(toks, language) ==
    IF LanguagesOf(toks) = {} THEN language
    ELSE Some(CHOOSE l \in LanguagesOf(toks) :
                 \A m \in LanguagesOf(toks) \ {l} :
                     \/ Occurrences(toks, l) > Occurrences(toks, m)
                     \/ /\ Occurrences(toks, l) = Occurrences(toks, m)
                        /\ FirstOccurrence(toks, l) < FirstOccurrence(toks, m))

LanguageStep ==
    ResultStep =>
        completion'.value.language = ExpectedLanguage(TokensOf(received'[1]), options.language)

\* C24: the language of the result is the language carried by most tokens of
\* the whole token list (translation tokens and tokens without timestamps
\* counted), the one seen first when counts are equal; when no token carries
\* a language, or there is no token, it is the caller's language.
C24_Language == [][LanguageStep]_vars

\* C24 case: two tokens en and two tokens es, en seen first, one es token a
\* translation and one untimed: the language is en
C24_Witness ==
    /\ pc \in {"deleting_job", "deleting_file"}
    /\ received # None
    /\ received[1].body.parsed # None
    /\ TokensOf(received[1]) = <<Hello, Hola, Untimed, World>>
    /\ completion.value.language = Some("en")

\* the place of a request in the workflow
Rank(c) ==
    IF IsUpload(c) THEN 1 ELSE IF IsCreate(c) THEN 2 ELSE IF IsStatus(c) THEN 3
    ELSE IF IsTranscript(c) THEN 4 ELSE 5

\* C25: the requests of a call are issued one at a time, in the order upload
\* (if any), create, status checks, transcript, DELETEs: only the last request
\* issued can be unanswered, a request never precedes one of an earlier place
\* in the workflow (so nothing but DELETEs follows the first DELETE), and the
\* transcript request directly follows a status check that was answered
\* 'completed'.
C25_Sequential ==
    /\ \A i \in 1..(Len(calls) - 1) : calls[i].result # "pending"
    /\ \A i, j \in 1..Len(calls) : i < j => Rank(calls[i]) <= Rank(calls[j])
    /\ \A i \in Creates : ~IsUrlAudio(options.audio) => i > 1 /\ IsUpload(calls[i - 1])
    /\ \A i \in Statuses : i > 1 /\ (IsCreate(calls[i - 1]) \/ IsStatus(calls[i - 1]))
    /\ \A t \in Transcripts :
           /\ t > 1
           /\ IsStatus(calls[t - 1])
           /\ calls[t - 1].result = "ok"
           /\ Get(statusResponse, "status") = Some("completed")

\* C25 case: a call that uploaded, created, checked the status twice,
\* fetched the transcript and deleted both resources has ended
C25_Witness ==
    /\ pc = "done"
    /\ Len(calls) = 7
    /\ IsUpload(calls[1]) /\ IsCreate(calls[2]) /\ IsStatus(calls[3]) /\ IsStatus(calls[4])
    /\ IsTranscript(calls[5]) /\ IsJobDelete(calls[6]) /\ IsFileDelete(calls[7])

\* the value a JSON response with a success status yields, if it yields one
Yields(r) ==
    IF ~r.net \/ ~ResponseOk(r) THEN None
    ELSE IF ~r.body.readable \/ r.body.text = "" THEN Some(EmptyObject)
    ELSE IF r.body.parsed = None THEN None
    ELSE r.body.parsed

\* r is a status response whose status is neither 'completed' nor 'error'
NonTerminal(r) ==
    /\ Yields(r) # None
    /\ \/ "status" \notin DOMAIN Yields(r)[1]
       \/ Yields(r)[1].status \notin {"completed", "error"}

\* this step issues a status request
StatusIssued == Indices(calls', IsStatus) # Statuses

PollingStep ==
    /\ StatusIssued =>
           /\ Cardinality(Indices(calls', IsStatus)) = Cardinality(Statuses) + 1
           /\ pc \in {"creating", "delaying"}
           /\ pc = "creating" => Statuses = {}
           /\ pc = "delaying" => now' = now + interval
    /\ pc # "delaying" /\ pc' = "delaying" =>
           pc = "polling" /\ NonTerminal(received'[1])
    /\ pc = "delaying" /\ pc' # "delaying" => StatusIssued \/ TimedOut'

\* C26: a status check is issued after the job creation (the first) or at the
\* end of a wait of one interval, a wait begins only on a status response
\* that is not terminal and ends in the next status check or the timeout, and
\* at most one status check is unanswered at any time.
C26_PollingAlternates ==
    /\ [](Cardinality({i \in Statuses : calls[i].result = "pending"}) <= 1)
    /\ [][PollingStep]_vars

\* C26 case: the second status check is in flight, one interval after the
\* first was issued and answered
C26_Witness ==
    /\ pc = "polling"
    /\ Cardinality(Statuses) = 2
    /\ now = start + interval
    /\ \E i \in Statuses : calls[i].result = "ok"

NonTerminalStep ==
    /\ pc = "polling" /\ NonTerminal(received'[1]) =>
           /\ pc' = "delaying"
           /\ completion' = completion
           /\ Len(calls') = Len(calls)
    /\ pc = "polling" /\ pc' = "fetching" =>
           Yields(received'[1]) # None /\ Get(Yields(received'[1])[1], "status") = Some("completed")
    /\ pc = "delaying" /\ pc' # "delaying" => StatusIssued \/ TimedOut'

\* C27: a status response whose status is neither 'completed' nor 'error'
\* (queued, processing, an unknown value, or none at all) does not end
\* polling: the loop waits one interval and then checks again, unless the
\* timeout has passed; polling goes on to the transcript only on 'completed'.
C27_OnlyTerminalEndsPolling == [][NonTerminalStep]_vars

\* C27 case: after a status response 'paused' the status is being checked again
C27_Witness ==
    /\ pc = "polling"
    /\ Cardinality(Statuses) = 2
    /\ received # None
    /\ Yields(received[1]) # None
    /\ Get(Yields(received[1])[1], "status") = Some("paused")

\* C28: with every request eventually answered and every delay eventually
\* over, the call eventually settles, whatever the service answers: also when
\* no status response is ever terminal, the timeout then ending the loop.
C28_EventuallySettles == <>(pc = "done" /\ outcome # Pending)

\* C28 case: every status check was answered with a status that is not
\* terminal, and the call has ended with the timeout error
C28_Witness ==
    /\ pc = "done"
    /\ outcome = [state |-> "rejected", reason |-> SonioxTranscriptionTimeoutError]
    /\ Cardinality(Statuses) >= 2
    /\ \A i \in Statuses : calls[i].result = "ok"

\* C29: while a DELETE of the finally block is unanswered the promise is
\* pending, and once it has settled every request of the call, its DELETEs
\* included, has been answered: the result, or the error, is delivered only
\* after the cleanup.
C29_SettlesAfterCleanup ==
    /\ pc \in {"deleting_job", "deleting_file"} =>
           /\ outcome = Pending
           /\ completion.type \in {"return", "throw"}
           /\ IsDelete(calls[Len(calls)]) /\ calls[Len(calls)].result = "pending"
    /\ outcome # Pending =>
           /\ \A i \in 1..Len(calls) : calls[i].result # "pending"
           /\ Truthy(transcriptionId) => JobDeletes # {}
           /\ Truthy(fileId) => FileDeletes # {}

\* C29 case: a call that failed with an API error has rejected after both
\* DELETEs were answered, one of them with a failure
C29_Witness ==
    /\ Rejected
    /\ completion.type = "throw"
    /\ completion.value.name = "SonioxApiError"
    /\ Cardinality(Deletes) = 2
    /\ \A i \in Deletes : calls[i].result # "pending"
    /\ \E i \in Deletes : calls[i].result = "http_error"

\* a status response with a non-success status or an unparsable body ends
\* polling with its error; after a failure no request but a DELETE is issued
NoRetryStep ==
    /\ pc = "polling" /\ received'[1].net /\ Yields(received'[1]) = None =>
           /\ completion'.type = "throw"
           /\ completion'.value.name =
                  (IF ResponseOk(received'[1]) THEN "SonioxTranscriptionError"
                   ELSE "SonioxApiError")
           /\ ~StatusIssued
    /\ completion.type = "throw" =>
           \A i \in (Len(calls) + 1)..Len(calls') : IsDelete(calls'[i])

\* C30: no request is repeated: a call issues at most one upload, one job
\* creation and one transcript request, only DELETEs follow a request that
\* failed, and a status check answered with a non-success status or an
\* unparsable body ends polling with that error, no further check following.
C30_NoRetry ==
    /\ [](/\ Cardinality(Uploads) <= 1
           /\ Cardinality(Creates) <= 1
           /\ Cardinality(Transcripts) <= 1
           /\ \A i, j \in 1..Len(calls) : i < j /\ Failed(calls[i]) => IsDelete(calls[j]))
    /\ [][NoRetryStep]_vars

\* C30 case: the first status check was answered with an unparsable body and
\* the call ended with the parse error, no second check issued
C30_Witness ==
    /\ pc = "done"
    /\ Cardinality(Statuses) = 1
    /\ Transcripts = {}
    /\ \E i \in Statuses : calls[i].result = "ok"
    /\ outcome = [state |-> "rejected",
                  reason |-> SonioxTranscriptionError(<<"Failed to parse Soniox response JSON">>)]

\* r is a status response whose status is 'completed'
Completed(r) ==
    /\ Yields(r) # None
    /\ Get(Yields(r)[1], "status") = Some("completed")

LoopHeadStep ==
    /\ pc = "creating" /\ pc' = "polling" => start' = now'
    /\ pc # "creating" => start' = start
    /\ ~TimedOut /\ TimedOut' =>
           /\ pc \in {"creating", "delaying"}
           /\ now' - start' > timeoutMs
    /\ pc = "polling" /\ Completed(received'[1]) =>
           /\ pc' = "fetching"
           /\ completion' = completion
    /\ pc = "fetching" /\ Yields(received'[1]) # None => completion'.type = "return"

\* C31: the timeout error is raised only at the head of a poll iteration,
\* when the time since polling began (the clock is read when the creation
\* response has been processed) exceeds the timeout; a status response
\* 'completed' leads to the transcript request however late it arrives, and a
\* transcript response that yields a value completes the call with its
\* result however late it arrives.
C31_TimeoutOnlyAtLoopHead == [][LoopHeadStep]_vars

\* C31 case: a call whose upload or creation took time has fulfilled after
\* one status check, more than the timeout after polling began
C31_Witness ==
    /\ Fulfilled
    /\ start > 0
    /\ now - start > timeoutMs
    /\ Cardinality(Statuses) = 1
    /\ Transcripts # {}

\* C32: status and transcript requests are issued only for a job id that the
\* creation response supplied.
C32_RequestsOnlyForSuppliedId ==
    Statuses \cup Transcripts # {} => Truthy(transcriptionId)

UploadFailureStep ==
    pc = "uploading" /\ received'[1].net /\ Yields(received'[1]) = None =>
       /\ pc' = "done"
       /\ outcome'.state = "rejected"
       /\ outcome'.reason = completion'.value
       /\ outcome'.reason.name =
              (IF ResponseOk(received'[1]) THEN "SonioxTranscriptionError"
               ELSE "SonioxApiError")
       /\ Len(calls') = Len(calls)
       /\ fileId' = None /\ transcriptionId' = None

\* C33: an upload answered with a non-success status or an unparsable body
\* rejects the call with that error at once: no id is recorded and no
\* further request (job creation, status, transcript, DELETE) is issued.
C33_UploadFailure ==
    /\ [][UploadFailureStep]_vars
    /\ [](\A i \in Uploads : Failed(calls[i]) =>
              /\ Len(calls) = 1
              /\ pc = "done" /\ Rejected)

\* C33 case: the upload was answered 401 and the call has rejected with the
\* API error, the upload its only request
C33_Witness ==
    /\ pc = "done"
    /\ Uploads = {1}
    /\ calls[1].result = "http_error"
    /\ RejectedWith("SonioxApiError")
    /\ outcome.reason.status = 401

====
